---- MODULE Spec2Model ----
(***************************************************************************)
(* CDSCO document search: link discovery, cached text extraction, keyword  *)
(* search with context snippets, ranking and threshold filtering.          *)
(*                                                                         *)
(* The repository holds three variants of one Streamlit script:            *)
(*   "direct"    deepseek_python_20250617_002b0f.py  (.pdf links)          *)
(*   "indirect"  deepseek_python_20250617_5c3fc3.py  (download endpoint)   *)
(*   "paginated" deepseek_python_20250617_83bd0a.py  (.pdf + pagination)   *)
(*                                                                         *)
(* Strings are modelled as sequences of one-character strings.             *)
(***************************************************************************)
EXTENDS Integers, Sequences, FiniteSets, TLC

VARIABLES
  text,        \* SpecText: the extracted text of one document
  keyword,     \* the keyword typed by the user (main, st.text_input)
  found,       \* SpecText: what the loop body appended for (text, keyword)
  tpc,         \* SpecText: "input" before the loop body ran, "scanned" after
  cache,       \* st.cache_data of extract_text_from_pdf: argument -> entry
  now,         \* the clock, in seconds
  last,        \* the latest call of extract_text_from_pdf, <<>> before any
  lastFetch,   \* per document id, the time of its latest network fetch
  pdf_list,    \* search_keyword_in_pdfs: the documents to search
  i,           \* the loop's position in pdf_list, from 1
  spc,         \* where the search is: "idle", "loop", "sleep", "done", "shown"
  results,     \* the results list of search_keyword_in_pdfs
  processed,   \* the text extract_text_from_pdf returned, per iteration
  trace,       \* the network fetches and the sleeps, in order
  min_matches, \* main: the threshold typed by the user
  ranked,      \* main: sorted(results, key=count, reverse=True)
  shown,       \* main: the results it displays, in order
  variant,     \* which script runs: "direct", "indirect" or "paginated"
  dpc,         \* get_all_pdf_links: "idle", "start", "pages" or "done"
  pdf_links,   \* get_all_pdf_links: the list it builds
  page_urls,   \* the pagination URLs still to visit, set(page_links)
  requests,    \* the page requests made, in order, with what came back
  discovered   \* what get_all_pdf_links returned

textVars == <<text, keyword, found, tpc>>
cacheVars == <<cache, now, last, lastFetch>>
searchVars == <<pdf_list, i, spc, results, processed, trace,
                min_matches, ranked, shown>>

discoverVars == <<variant, dpc, pdf_links, page_urls, requests, discovered>>

vars == <<text, keyword, found, tpc, cache, now, last, lastFetch,
          pdf_list, i, spc, results, processed, trace,
          min_matches, ranked, shown,
          variant, dpc, pdf_links, page_urls, requests, discovered>>

----------------------------------------------------------------------------
(* Bounds of the model *)

MaxTextLen == 4
MaxKeyLen == 2

MaxTicks == 3
MaxDocs == 3
MaxThreshold == 3
MaxLinks == 2
MaxPageLinks == 2

(* Program constants *)

ContextWindow == 30
MaxOccurrences == 5

----------------------------------------------------------------------------
(* Characters and strings *)

NL == "\n"
TextAlphabet == {"a", "A", "b", " ", NL}
KeyAlphabet == {"a", "A", "b", " "}

SeqsUpTo(S, n) == UNION {[1..m -> S] : m \in 0..n}

Min(a, b) == IF a < b THEN a ELSE b
Max(a, b) == IF a > b THEN a ELSE b
SetMax(S) == CHOOSE x \in S : \A y \in S : y <= x
SetMin(S) == CHOOSE x \in S : \A y \in S : x <= y

\* str.lower() on one character
LowerChar(c) ==
  CASE c = "A" -> "a"
    [] c = "B" -> "b"
    [] OTHER -> c

\* a plausible slip: the text is searched without case folding
LowerIdentity(s) == s

\* str.lower()
Lower(s) == [x \in 1..Len(s) |-> LowerChar(s[x])]

\* s[p : p + len(k)] == k, positions counted from 1
StartsAt(s, k, p) ==
  /\ p >= 1
  /\ p + Len(k) - 1 <= Len(s)
  /\ \A x \in 1..Len(k) : s[p + x - 1] = k[x]

\* k in s
Contains(s, k) == \E p \in 1..(Len(s) + 1) : StartsAt(s, k, p)

\* str.count(k): non-overlapping occurrences, scanning left to right from p
RECURSIVE CountFrom(_, _, _)
CountFrom(s, k, p) ==
  IF p + Len(k) - 1 > Len(s) THEN 0
  ELSE IF StartsAt(s, k, p) THEN 1 + CountFrom(s, k, p + Max(Len(k), 1))
  ELSE CountFrom(s, k, p + 1)

StrCount(s, k) == IF Len(k) = 0 THEN Len(s) + 1 ELSE CountFrom(s, k, 1)

IsSpace(c) == c \in {" ", NL}

\* str.strip()
Strip(s) ==
  LET keep == {x \in 1..Len(s) : ~IsSpace(s[x])}
  IN IF keep = {} THEN <<>> ELSE SubSeq(s, SetMin(keep), SetMax(keep))

----------------------------------------------------------------------------
(* re.compile(r'(.{0,30}' + re.escape(keyword) + r'.{0,30})', re.IGNORECASE) *)

\* the escaped keyword matches at p, ignoring case
KeywordAt(s, k, p) ==
  /\ p >= 1
  /\ p + Len(k) - 1 <= Len(s)
  /\ \A x \in 1..Len(k) : LowerChar(s[p + x - 1]) = LowerChar(k[x])

\* how many characters '.{0,30}' can take from p on: '.' stops at a newline
DotRun(s, p) ==
  SetMax({r \in 0..Min(ContextWindow, Len(s) - p + 1) :
            \A q \in p..(p + r - 1) : s[q] # NL})

\* the prefix lengths from which the keyword matches, for a match starting at p
PrefixLens(s, k, p) == {j \in 0..DotRun(s, p) : KeywordAt(s, k, p + j)}

\* the match that starts at p: greedy prefix, keyword, greedy suffix;
\* a span is [from |-> first position, to |-> last position]
MatchAt(s, k, p) ==
  LET j == SetMax(PrefixLens(s, k, p))
      e == p + j + Len(k)
  IN [from |-> p, to |-> e + DotRun(s, e) - 1]

\* pattern.finditer(text): leftmost match from pos, then on from its end
RECURSIVE FindIter(_, _, _)
FindIter(s, k, pos) ==
  LET starts == {p \in pos..(Len(s) + 1) : PrefixLens(s, k, p) # {}}
  IN IF starts = {} THEN <<>>
     ELSE LET m == MatchAt(s, k, SetMin(starts))
          IN <<m>> \o FindIter(s, k, m.to + 1)

\* match.group(1).strip()
Snippet(s, m) == Strip(SubSeq(s, m.from, m.to))

\* a slip: the list of occurrences is not cut
TruncateNothing(q) == q

\* occurrences[:5]
Truncate(q) == SubSeq(q, 1, Min(Len(q), MaxOccurrences))

----------------------------------------------------------------------------
(* The body of the loop of search_keyword_in_pdfs for one document text:   *)
(* the records it appends to results (none or one), without the document.  *)

SearchText(t, kw) ==
  LET k == Lower(kw)
      t_lower == Lower(t)
      spans == FindIter(t, k, 1)
      occurrences == [x \in 1..Len(spans) |-> Snippet(t, spans[x])]
  IN IF Len(t) = 0 THEN <<>>
     ELSE IF ~Contains(t_lower, k) THEN <<>>
     ELSE <<[occurrences |-> Truncate(occurrences),
             count |-> StrCount(t_lower, k)]>>

----------------------------------------------------------------------------
(* extract_text_from_pdf behind @st.cache_data(ttl=24*3600)                *)

\* ttl=24*3600
TTL == 24 * 3600

\* what one network fetch of a document can bring back
FetchError == [kind |-> "error"]            \* requests raises (status, timeout)
Unreadable == [kind |-> "unreadable"]       \* PyPDF2 raises on the payload
Pdf(pages) == [kind |-> "pdf", pages |-> pages]

\* page.extract_text() or "": a page is {} (None) or {its text}
PageText(page) == IF page = {} THEN <<>> ELSE CHOOSE t \in page : TRUE

\* text += page.extract_text() or "", page after page
RECURSIVE ConcatPages(_)
ConcatPages(pages) ==
  IF pages = <<>> THEN <<>>
  ELSE PageText(Head(pages)) \o ConcatPages(Tail(pages))

\* the body of extract_text_from_pdf on the outcome of its request
ExtractText(outcome) ==
  IF outcome.kind = "pdf" THEN ConcatPages(outcome.pages) ELSE <<>>

\* URLs and hrefs are sequences of lexemes, link texts sequences of characters
PDF_BASE_URL ==
  <<"https://cdsco.gov.in/opencms/opencms/system/modules/CDSCO.WEB/elements/common_download.jsp">>

\* a document as get_all_pdf_links of the indirect variant builds it:
\* {'url': f"{PDF_BASE_URL}?num_id_pk={num_id}", 'title': ..., 'id': num_id}.
\* In the other two variants a document is its URL alone.
DocRef(id, title) ==
  [url |-> PDF_BASE_URL \o <<"?", "num_id_pk=">> \o id, title |-> title, id |-> id]

\* st.cache_data: an entry is served while its age is below the ttl
IsFresh(entry, t) == t - entry.at < TTL

\* a call extract_text_from_pdf(doc) at time t; outcome is what the network
\* would bring back if asked.  The cache key is the argument.
CachedExtract(c, doc, t, outcome) ==
  IF doc \in DOMAIN c /\ IsFresh(c[doc], t)
  THEN [cache |-> c, text |-> c[doc].text, fetched |-> FALSE]
  ELSE [cache |-> [d \in DOMAIN c \cup {doc} |->
                     IF d = doc THEN [text |-> ExtractText(outcome), at |-> t]
                     ELSE c[d]],
        text |-> ExtractText(outcome),
        fetched |-> TRUE]

IdleText ==
  /\ text = <<>>
  /\ keyword = <<>>
  /\ found = <<>>
  /\ tpc = "idle"

\* no discovery under way
IdleDiscover ==
  /\ variant = "none"
  /\ dpc = "idle"
  /\ pdf_links = <<>>
  /\ page_urls = {}
  /\ requests = <<>>
  /\ discovered = <<>>

\* no search under way
IdleSearch ==
  /\ pdf_list = <<>>
  /\ i = 0
  /\ spc = "idle"
  /\ results = <<>>
  /\ processed = <<>>
  /\ trace = <<>>
  /\ min_matches = 0
  /\ ranked = <<>>
  /\ shown = <<>>

\* no call yet, empty cache
IdleCache ==
  /\ cache = <<>>
  /\ now = 0
  /\ last = <<>>
  /\ lastFetch = <<>>

\* the effect of one call on the cache and on the record of calls
CallExtract(doc, outcome) ==
  LET r == CachedExtract(cache, doc, now, outcome)
  IN /\ cache' = r.cache
     /\ last' = <<[doc |-> doc, at |-> now, fetched |-> r.fetched,
                   text |-> r.text,
                   known |-> doc.id \in DOMAIN lastFetch,
                   age |-> IF doc.id \in DOMAIN lastFetch
                           THEN now - lastFetch[doc.id] ELSE 0]>>
     /\ lastFetch' = IF r.fetched
                     THEN [j \in DOMAIN lastFetch \cup {doc.id} |->
                             IF j = doc.id THEN now ELSE lastFetch[j]]
                     ELSE lastFetch

----------------------------------------------------------------------------
(* SpecCache: any sequence of calls of extract_text_from_pdf and clock     *)
(* advances                                                                *)

CacheDocs ==
  {DocRef(<<"7">>, <<"T">>), DocRef(<<"7">>, <<"U">>), DocRef(<<"8">>, <<"T">>)}
CacheOutcomes == {FetchError, Unreadable, Pdf(<<{<<"a">>}>>)}
ClockStep == TTL \div 2

InitCache ==
  /\ IdleCache
  /\ IdleText
  /\ IdleSearch
  /\ IdleDiscover

Lookup ==
  /\ \E doc \in CacheDocs, outcome \in CacheOutcomes : CallExtract(doc, outcome)
  /\ UNCHANGED now
  /\ UNCHANGED textVars
  /\ UNCHANGED discoverVars
  /\ UNCHANGED searchVars

Tick ==
  /\ now < MaxTicks * ClockStep
  /\ now' = now + ClockStep
  /\ UNCHANGED <<cache, last, lastFetch>>
  /\ UNCHANGED textVars
  /\ UNCHANGED discoverVars
  /\ UNCHANGED searchVars

NextCache == Lookup \/ Tick

SpecCache == InitCache /\ [][NextCache]_vars

\* C2 (as claimed): a call for a document id fetches exactly when no fetch for
\* that id is younger than the 24h window: inside the window a second call
\* for the same id fetches nothing, after it the next call fetches anew.
C2_FetchIffNoFreshEntryForId ==
  last # <<>> =>
    (last[1].fetched <=> ~(last[1].known /\ last[1].age < TTL))

----------------------------------------------------------------------------
(* SpecText: the loop body applied to every bounded text and keyword *)

RECURSIVE Rep(_, _)
Rep(s, n) == IF n = 0 THEN <<>> ELSE s \o Rep(s, n - 1)

\* texts long enough to reach the context window and the occurrence limit
LongTexts ==
  { Rep(<<"a", NL>>, MaxOccurrences + 1),
    Rep(<<"b">>, ContextWindow + 1) \o <<"A">> \o Rep(<<"b">>, ContextWindow + 1) }

Texts == SeqsUpTo(TextAlphabet, MaxTextLen) \cup LongTexts
\* main runs a search only for a non-empty keyword
Keywords == SeqsUpTo(KeyAlphabet, MaxKeyLen) \ {<<>>}

InitText ==
  /\ text \in Texts
  /\ keyword \in Keywords
  /\ found = <<>>
  /\ tpc = "input"
  /\ IdleCache
  /\ IdleSearch
  /\ IdleDiscover

Scan ==
  /\ tpc = "input"
  /\ found' = SearchText(text, keyword)
  /\ tpc' = "scanned"
  /\ UNCHANGED <<text, keyword>>
  /\ UNCHANGED cacheVars
  /\ UNCHANGED searchVars
  /\ UNCHANGED discoverVars

NextText == Scan

SpecText == InitText /\ [][NextText]_vars

----------------------------------------------------------------------------
(* get_all_pdf_links                                                       *)

CDSCO_BASE_URL(v) ==
  CASE v = "direct" -> <<"https://cdsco.gov.in/opencms/opencms/en/Notifications/SEC/">>
    [] v = "indirect" -> <<"https://cdsco.gov.in/opencms/opencms/en/Committees/SEC/">>
    [] OTHER -> <<"https://cdsco.gov.in/opencms/opencms/en/Notifications/Safety-Notices/">>

\* str.lower() on a lexeme
LowerLexeme(x) == IF x = ".PDF" THEN ".pdf" ELSE x

\* href.lower().endswith('.pdf')
EndsWithPdf(href) == href # <<>> /\ LowerLexeme(href[Len(href)]) = ".pdf"

\* urljoin(base, href) for a base <<directory>> or <<directory, query>>: a
\* bare fragment gives the base, a query replaces the base's query, a relative
\* path is resolved in the directory
UrlJoin(base, href) ==
  IF href = <<"#">> THEN base
  ELSE IF Head(href) = "./" THEN <<Head(base)>> \o Tail(href)
  ELSE <<Head(base)>> \o href

\* lexeme in href
HasLexeme(href, x) == \E p \in 1..Len(href) : href[p] = x

\* href.split('num_id_pk=')[1]: what follows the first 'num_id_pk=', up to
\* the next one
AfterIdParam(href) ==
  LET first == SetMin({p \in 1..Len(href) : href[p] = "num_id_pk="})
      later == {p \in (first + 1)..Len(href) : href[p] = "num_id_pk="}
      stop == IF later = {} THEN Len(href) ELSE SetMin(later) - 1
  IN SubSeq(href, first + 1, stop)

\* the loop over soup.find_all('a', href=True) of the .pdf variants
RECURSIVE PdfLinks(_, _)
PdfLinks(base, links) ==
  IF links = <<>> THEN <<>>
  ELSE (IF EndsWithPdf(Head(links).href)
        THEN <<UrlJoin(base, Head(links).href)>> ELSE <<>>)
       \o PdfLinks(base, Tail(links))

\* the loop over soup.find_all('a', href=True) of the indirect variant
RECURSIVE DownloadLinks(_)
DownloadLinks(links) ==
  IF links = <<>> THEN <<>>
  ELSE (IF /\ HasLexeme(Head(links).href, "common_download.jsp")
           /\ HasLexeme(Head(links).href, "num_id_pk=")
        THEN <<DocRef(AfterIdParam(Head(links).href), Strip(Head(links).text))>>
        ELSE <<>>)
       \o DownloadLinks(Tail(links))

\* the links a page adds to pdf_links
LinksOf(v, base, page) ==
  IF v = "indirect" THEN DownloadLinks(page.links) ELSE PdfLinks(base, page.links)

\* [urljoin(base_url, a['href']) for a in pagination.find_all('a', href=True)]
\* as a set; pagination is {} when the page has no ul.pagination
PageLinks(base, page) ==
  IF page.pagination = {} THEN {}
  ELSE LET hrefs == CHOOSE h \in page.pagination : TRUE
       IN {UrlJoin(base, hrefs[x]) : x \in 1..Len(hrefs)}

\* list(set(q)): the distinct elements in an order the hash seed decides
Distinct(q) ==
  LET S == {q[x] : x \in 1..Len(q)}
  IN {r \in [1..Cardinality(S) -> S] : \A a, b \in 1..Cardinality(S) : a # b => r[a] # r[b]}

\* what a page request can bring back
PdfHrefs == {<<"a", ".pdf">>, <<"./", "a", ".pdf">>, <<"B", ".PDF">>, <<"c", ".html">>}
DownloadHrefs ==
  { <<"common_download.jsp", "?", "num_id_pk=", "7">>,
    <<"common_download.jsp", "?", "num_id_pk=", "8">>,
    <<"common_download.jsp", "?", "num_id_pk=">>,
    <<"common_download.jsp", "?", "num_id_pk=", "7", "&", "x=1">>,
    <<"common_download.jsp", "?", "x=1">>,
    <<"view.jsp", "?", "num_id_pk=", "8">> }
PaginationHrefs == {<<"?page=2">>, <<"?page=3">>, <<"#">>}
LinkTexts == {<<"T">>, <<" ", "U", NL>>}

Anchors(v) ==
  IF v = "indirect"
  THEN [href : DownloadHrefs, text : LinkTexts]
  ELSE [href : PdfHrefs, text : {<<"T">>}]

RequestFailed == [ok |-> FALSE]
Page(links, pagination) == [ok |-> TRUE, links |-> links, pagination |-> pagination]

ListingPages(v) ==
  {Page(links, pagination) :
     links \in SeqsUpTo(Anchors(v), MaxLinks),
     pagination \in {{}} \cup {{h} : h \in SeqsUpTo(PaginationHrefs, MaxPageLinks)}}

FurtherPages(v) ==
  {Page(links, pagination) :
     links \in SeqsUpTo(Anchors(v), 1),
     pagination \in {{}, {<<<<"?page=3">>>>}}}

Request(url, response) == [url |-> url, response |-> response]

InitDiscover ==
  /\ variant \in {"direct", "indirect", "paginated"}
  /\ dpc = "start"
  /\ pdf_links = <<>>
  /\ page_urls = {}
  /\ requests = <<>>
  /\ discovered = <<>>
  /\ IdleText
  /\ IdleCache
  /\ IdleSearch

\* the request for the listing page and the loop over its links; a failure
\* returns []; the .pdf and the indirect variants return the list as built
FetchListing ==
  /\ dpc = "start"
  /\ \E response \in {RequestFailed} \cup ListingPages(variant) :
       LET base == CDSCO_BASE_URL(variant)
       IN /\ requests' = Append(requests, Request(base, response))
          /\ IF ~response.ok
             THEN /\ pdf_links' = pdf_links
                  /\ page_urls' = page_urls
                  /\ discovered' = <<>>
                  /\ dpc' = "done"
             ELSE /\ pdf_links' = LinksOf(variant, base, response)
                  /\ IF variant = "paginated"
                     THEN /\ page_urls' = PageLinks(base, response)
                          /\ discovered' = discovered
                          /\ dpc' = "pages"
                     ELSE /\ page_urls' = page_urls
                          /\ discovered' = LinksOf(variant, base, response)
                          /\ dpc' = "done"
  /\ UNCHANGED variant
  /\ UNCHANGED textVars
  /\ UNCHANGED cacheVars
  /\ UNCHANGED searchVars

\* one turn of 'for page_url in set(page_links)': a failed request is
\* reported and the loop goes on
FetchPage ==
  /\ dpc = "pages"
  /\ \E page_url \in page_urls :
     \E response \in {RequestFailed} \cup FurtherPages(variant) :
       /\ requests' = Append(requests, Request(page_url, response))
       /\ pdf_links' = IF response.ok
                       THEN pdf_links \o PdfLinks(page_url, response.links)
                       ELSE pdf_links
       /\ page_urls' = page_urls \ {page_url}
  /\ UNCHANGED <<variant, dpc, discovered>>
  /\ UNCHANGED textVars
  /\ UNCHANGED cacheVars
  /\ UNCHANGED searchVars

\* return list(set(pdf_links))
ReturnLinks ==
  /\ dpc = "pages"
  /\ page_urls = {}
  /\ discovered' \in Distinct(pdf_links)
  /\ dpc' = "done"
  /\ UNCHANGED <<variant, pdf_links, page_urls, requests>>
  /\ UNCHANGED textVars
  /\ UNCHANGED cacheVars
  /\ UNCHANGED searchVars

NextDiscover == FetchListing \/ FetchPage \/ ReturnLinks

SpecDiscover == InitDiscover /\ [][NextDiscover]_vars

----------------------------------------------------------------------------
(* search_keyword_in_pdfs and the display loop of main                     *)

Reverse(q) == [j \in 1..Len(q) |-> q[Len(q) + 1 - j]]

\* r goes after every element whose count is not above its own
RECURSIVE InsertAsc(_, _)
InsertAsc(q, r) ==
  IF q = <<>> THEN <<r>>
  ELSE IF Head(q).count <= r.count THEN <<Head(q)>> \o InsertAsc(Tail(q), r)
  ELSE <<r>> \o q

\* a stable ascending sort by count
RECURSIVE SortAsc(_)
SortAsc(q) ==
  IF q = <<>> THEN <<>>
  ELSE InsertAsc(SortAsc(SubSeq(q, 1, Len(q) - 1)), q[Len(q)])

\* a slip: sort ascending, then reverse
SortedThenReversed(q) == Reverse(SortAsc(q))

\* sorted(results, key=lambda x: x['count'], reverse=True): the list is
\* reversed, sorted stably in ascending order, and reversed again
Sorted(q) == Reverse(SortAsc(Reverse(q)))

\* a slip: the threshold itself is filtered out
DisplayLoopStrict(q, m) ==
  LET Keep(r) == ~(r.count <= m) IN SelectSeq(q, Keep)

\* for result in sorted(...): if result['count'] < min_matches: continue
RECURSIVE DisplayLoop(_, _)
DisplayLoop(q, m) ==
  IF q = <<>> THEN <<>>
  ELSE IF Head(q).count < m THEN DisplayLoop(Tail(q), m)
  ELSE <<Head(q)>> \o DisplayLoop(Tail(q), m)

\* results.append({...}) of iteration n for document doc with text t; index
\* stands for the identity of the appended dict (equal dicts are two objects)
Appended(doc, n, t, kw) ==
  LET hit == SearchText(t, kw)
  IN IF hit = <<>> THEN <<>>
     ELSE <<[doc |-> doc, index |-> n,
             occurrences |-> hit[1].occurrences, count |-> hit[1].count]>>

FetchEvent(n) == [kind |-> "fetch", index |-> n]
SleepEvent(n) == [kind |-> "sleep", index |-> n]

SearchDocs ==
  {DocRef(<<"7">>, <<"T">>), DocRef(<<"8">>, <<"T">>), DocRef(<<"9">>, <<"T">>)}
SearchKeywords == {<<"a">>, <<"A", "a">>}
SearchOutcomes ==
  { FetchError, Unreadable,
    Pdf(<<{}, {<<"b">>}>>),
    Pdf(<<{<<"a">>}>>),
    Pdf(<<{<<"a">>}, {}, {<<"A">>}>>) }

\* main calls the search with a non-empty document list and keyword
InitSearch ==
  /\ pdf_list \in SeqsUpTo(SearchDocs, MaxDocs) \ {<<>>}
  /\ keyword \in SearchKeywords
  /\ i = 1
  /\ spc = "loop"
  /\ results = <<>>
  /\ processed = <<>>
  /\ trace = <<>>
  /\ min_matches = 0
  /\ ranked = <<>>
  /\ shown = <<>>
  /\ text = <<>> /\ found = <<>> /\ tpc = "idle"
  /\ IdleCache
  /\ IdleDiscover

\* a slip: a document without text ends the loop
ProcessDocumentAbort ==
  /\ spc = "loop"
  /\ i <= Len(pdf_list)
  /\ \E outcome \in SearchOutcomes :
       LET r == CachedExtract(cache, pdf_list[i], now, outcome)
       IN /\ CallExtract(pdf_list[i], outcome)
          /\ processed' = Append(processed, [index |-> i, text |-> r.text])
          /\ trace' = IF r.fetched THEN Append(trace, FetchEvent(i)) ELSE trace
          /\ IF r.text = <<>>
             THEN /\ i' = Len(pdf_list) + 1
                  /\ spc' = "loop"
                  /\ results' = results
             ELSE /\ i' = i
                  /\ spc' = "sleep"
                  /\ results' = results \o Appended(pdf_list[i], i, r.text, keyword)
  /\ UNCHANGED <<now, pdf_list, min_matches, ranked, shown>>
  /\ UNCHANGED textVars
  /\ UNCHANGED discoverVars

\* one iteration of the loop up to its sleep: extract the text; without text,
\* continue with the next document; else append the result if the keyword is in
ProcessDocument ==
  /\ spc = "loop"
  /\ i <= Len(pdf_list)
  /\ \E outcome \in SearchOutcomes :
       LET r == CachedExtract(cache, pdf_list[i], now, outcome)
       IN /\ CallExtract(pdf_list[i], outcome)
          /\ processed' = Append(processed, [index |-> i, text |-> r.text])
          /\ trace' = IF r.fetched THEN Append(trace, FetchEvent(i)) ELSE trace
          /\ IF r.text = <<>>
             THEN /\ i' = i + 1
                  /\ spc' = "loop"
                  /\ results' = results
             ELSE /\ i' = i
                  /\ spc' = "sleep"
                  /\ results' = results \o Appended(pdf_list[i], i, r.text, keyword)
  /\ UNCHANGED <<now, pdf_list, min_matches, ranked, shown>>
  /\ UNCHANGED textVars
  /\ UNCHANGED discoverVars

\* time.sleep(...) at the end of the loop body
Delay ==
  /\ spc = "sleep"
  /\ trace' = Append(trace, SleepEvent(i))
  /\ i' = i + 1
  /\ spc' = "loop"
  /\ UNCHANGED <<pdf_list, results, processed, min_matches, ranked, shown>>
  /\ UNCHANGED cacheVars
  /\ UNCHANGED textVars
  /\ UNCHANGED discoverVars

\* return results
Return ==
  /\ spc = "loop"
  /\ i > Len(pdf_list)
  /\ spc' = "done"
  /\ UNCHANGED <<pdf_list, i, results, processed, trace, min_matches, ranked, shown>>
  /\ UNCHANGED cacheVars
  /\ UNCHANGED textVars
  /\ UNCHANGED discoverVars

\* main after the search: nothing to show without results; else rank the
\* results and display those that reach the threshold
Display ==
  /\ spc = "done"
  /\ \E m \in 1..MaxThreshold :
       /\ min_matches' = m
       /\ IF results = <<>>
          THEN ranked' = <<>> /\ shown' = <<>>
          ELSE /\ ranked' = Sorted(results)
               /\ shown' = DisplayLoop(Sorted(results), m)
  /\ spc' = "shown"
  /\ UNCHANGED <<pdf_list, i, results, processed, trace>>
  /\ UNCHANGED cacheVars
  /\ UNCHANGED textVars
  /\ UNCHANGED discoverVars

NextSearch == ProcessDocument \/ Delay \/ Return \/ Display

SpecSearch == InitSearch /\ [][NextSearch]_vars

----------------------------------------------------------------------------
(* Occurrences of a keyword in a text, stated without the code's lowering *)

SameIgnoringCase(c, d) ==
  \/ c = d
  \/ <<c, d>> \in {<<"a", "A">>, <<"A", "a">>, <<"b", "B">>, <<"B", "b">>}

\* the keyword stands at position p of the text, ignoring case
OccursAt(t, k, p) ==
  /\ p + Len(k) - 1 <= Len(t)
  /\ \A x \in 1..Len(k) : SameIgnoringCase(t[p + x - 1], k[x])

OccurrencePositions(t, k) == {p \in 1..Len(t) : OccursAt(t, k, p)}

\* the occurrences met scanning left to right, none overlapping the one before
RECURSIVE ScanOccurrences(_, _, _)
ScanOccurrences(t, k, pos) ==
  LET later == {p \in OccurrencePositions(t, k) : p >= pos}
  IN IF later = {} THEN <<>>
     ELSE <<SetMin(later)>> \o ScanOccurrences(t, k, SetMin(later) + Len(k))

Recasings(k) ==
  {k2 \in Keywords : /\ Len(k2) = Len(k)
                     /\ \A x \in 1..Len(k) : SameIgnoringCase(k2[x], k[x])}

\* C3: the count reported for a matching document is the number of
\* non-overlapping case-insensitive occurrences of the keyword in the text,
\* scanned left to right, and every re-casing of the keyword reports it too.
C3_CountIsCaseInsensitive ==
  (tpc = "scanned" /\ found # <<>>) =>
    /\ found[1].count = Len(ScanOccurrences(text, keyword, 1))
    /\ \A k2 \in Recasings(keyword) :
         /\ SearchText(text, k2) # <<>>
         /\ SearchText(text, k2)[1].count = found[1].count

\* a mixed-case keyword counted in a text of another casing, with
\* overlapping occurrences of which only the non-overlapping ones count
C3_Witness ==
  /\ tpc = "scanned" /\ found # <<>>
  /\ found[1].count >= 1
  /\ Cardinality(OccurrencePositions(text, keyword)) > found[1].count
  /\ keyword # Lower(keyword)
  /\ ~Contains(text, keyword)

\* the window the claim describes around the occurrence at p
ClaimedSnippet(t, k, p) ==
  Strip(SubSeq(t, Max(1, p - ContextWindow),
                  Min(Len(t), p + Len(k) - 1 + ContextWindow)))

\* C4 (as claimed): each of the first 5 occurrences, in text order, has its
\* own snippet: the 30 characters before and after it, clipped only at the
\* ends of the text, stripped of surrounding whitespace.
C4_SnippetPerOccurrence ==
  (tpc = "scanned" /\ found # <<>>) =>
    LET occ == ScanOccurrences(text, keyword, 1)
    IN found[1].occurrences =
         [x \in 1..Min(MaxOccurrences, Len(occ)) |->
            ClaimedSnippet(text, keyword, occ[x])]

----------------------------------------------------------------------------
(* The search and its presentation *)

\* q is in descending order of count, equal counts in the order of the input
RankedStably(q) ==
  \A a, b \in 1..Len(q) :
    a < b => \/ q[a].count > q[b].count
             \/ q[a].count = q[b].count /\ q[a].index < q[b].index

Elements(q) == {q[x] : x \in 1..Len(q)}

\* C1: what main presents is in descending order of occurrence count, and
\* results of equal count keep the relative order of their documents in the
\* input list; ranking drops and invents no result.
C1_RankingDescendingStable ==
  spc = "shown" =>
    /\ RankedStably(ranked)
    /\ RankedStably(shown)
    /\ Len(ranked) = Len(results)
    /\ Elements(ranked) = Elements(results)

\* three results were ranked, a later one above an earlier one, and two of
\* equal count
C1_Witness ==
  /\ spc = "shown"
  /\ Len(shown) >= 3
  /\ ranked # results
  /\ \E a, b \in 1..Len(shown) : a < b /\ shown[a].count = shown[b].count

\* C6: the displayed sequence is the ranked sequence without the results
\* below the threshold, in the same order, and every displayed result is a
\* result of the search with the count the search gave it.
C6_ThresholdAfterRanking ==
  spc = "shown" =>
    LET Reaches(r) == r.count >= min_matches
    IN /\ shown = SelectSeq(ranked, Reaches)
       /\ \A r \in Elements(shown) :
            /\ r \in Elements(results)
            /\ r.count = Len(ScanOccurrences(processed[r.index].text, keyword, 1))

\* a threshold above 1 hid one result and kept one whose count equals it
C6_Witness ==
  /\ spc = "shown"
  /\ min_matches > 1
  /\ shown # <<>>
  /\ Len(shown) < Len(ranked)
  /\ \E r \in Elements(shown) : r.count = min_matches

\* the iterations whose text is not empty and holds the keyword, ignoring case
Matching ==
  LET Hit(n) == /\ processed[n].text # <<>>
                /\ OccurrencePositions(processed[n].text, keyword) # {}
  IN SelectSeq([n \in 1..Len(processed) |-> n], Hit)

\* C9: the search takes the documents of the list once each, in order, and
\* stops nowhere but at the end of the list, whatever a document's fetch or
\* extraction gives; a result is emitted for exactly the documents whose
\* text is not empty and holds the keyword, ignoring case.
C9_EveryDocumentOnce ==
  /\ spc \in {"loop", "sleep", "done", "shown"} =>
       /\ [n \in 1..Len(processed) |-> processed[n].index]
            = [n \in 1..Len(processed) |-> n]
       /\ Len(processed) = IF spc = "sleep" THEN i ELSE i - 1
       /\ [n \in 1..Len(results) |-> results[n].index] = Matching
       /\ \A n \in 1..Len(results) : results[n].doc = pdf_list[results[n].index]
  /\ spc = "loop" => i \in 1..(Len(pdf_list) + 1)
  /\ spc = "sleep" => i \in 1..Len(pdf_list)
  /\ spc \in {"done", "shown"} => Len(processed) = Len(pdf_list)

\* the search ended after a document whose fetch failed, then one without
\* the keyword, then one with it
C9_Witness ==
  /\ spc = "done"
  /\ Len(processed) >= 3
  /\ processed[1].text = <<>>
  /\ processed[2].text # <<>>
  /\ [n \in 1..Len(results) |-> results[n].index] = <<3>>

\* C10 (as claimed): between the fetches of two consecutive documents of the
\* list lies the delay, whatever the first document gave.
C10_DelayBetweenFetches ==
  \A a, b \in 1..Len(trace) :
    (/\ a < b
     /\ trace[a].kind = "fetch"
     /\ trace[b].kind = "fetch"
     /\ trace[b].index = trace[a].index + 1)
    => \E c \in (a + 1)..(b - 1) : trace[c].kind = "sleep"

----------------------------------------------------------------------------
(* Discovery *)

\* what makes two discovered documents the same document
Identity(v, entry) == IF v = "indirect" THEN entry.id ELSE entry

\* C5 (as claimed): the list one discovery run returns holds no two entries
\* of the same identity, also when the page carries a link more than once.
C5_DiscoveredUnique ==
  dpc = "done" =>
    \A a, b \in 1..Len(discovered) :
      a # b => Identity(variant, discovered[a]) # Identity(variant, discovered[b])

\* the href closes with 'num_id_pk=' and one identifier
WellFormedId(href) ==
  /\ Len(href) >= 2
  /\ href[Len(href) - 1] = "num_id_pk="
  /\ href[Len(href)] \in {"7", "8"}
  /\ \A p \in 1..(Len(href) - 2) : href[p] # "num_id_pk="

\* C7 (as claimed): under the indirect policy a link whose identifier is
\* missing or malformed gives no entry, and every well-formed link of the
\* page gives its entry.
C7_MalformedIdSkipped ==
  (variant = "indirect" /\ dpc = "done" /\ requests[1].response.ok) =>
    LET Good(l) == /\ HasLexeme(l.href, "common_download.jsp")
                   /\ WellFormedId(l.href)
        good == SelectSeq(requests[1].response.links, Good)
    IN discovered =
         [x \in 1..Len(good) |->
            DocRef(<<good[x].href[Len(good[x].href)]>>, Strip(good[x].text))]

\* how often url was requested
Times(url) == Cardinality({x \in 1..Len(requests) : requests[x].url = url})

\* C8 (as claimed): each pagination URL other than the listing URL is
\* requested once, the listing URL is not requested again, nothing else is
\* requested, and the documents of every page that came back are returned,
\* whatever other page failed.
C8_PaginationOneLevel ==
  (variant = "paginated" /\ dpc = "done" /\ requests[1].response.ok) =>
    LET base == CDSCO_BASE_URL(variant)
        targets == PageLinks(base, requests[1].response) \ {base}
        Found(x) == IF requests[x].response.ok
                    THEN Elements(PdfLinks(requests[x].url, requests[x].response.links))
                    ELSE {}
    IN /\ Times(base) = 1
       /\ \A u \in targets : Times(u) = 1
       /\ \A x \in 1..Len(requests) : requests[x].url \in {base} \cup targets
       /\ Elements(discovered) = UNION {Found(x) : x \in 1..Len(requests)}

----------------------------------------------------------------------------
(* The shape of a result *)

\* C11: every emitted result counts at least one occurrence and carries at
\* least one snippet, at most 5 and at most as many as counted occurrences;
\* the snippets are those of the first matches of the text, in text order.
C11_SnippetListBounds ==
  (tpc = "scanned" /\ found # <<>>) =>
    LET n == Len(found[1].occurrences)
        spans == FindIter(text, Lower(keyword), 1)
    IN /\ found[1].count >= 1
       /\ n >= 1
       /\ n <= MaxOccurrences
       /\ n <= found[1].count
       /\ n <= Len(spans)
       /\ \A x \in 1..n :
            /\ found[1].occurrences[x] = Snippet(text, spans[x])
            /\ x > 1 => spans[x - 1].to < spans[x].from
            /\ \E p \in spans[x].from..spans[x].to :
                 OccursAt(text, keyword, p) /\ p + Len(keyword) - 1 <= spans[x].to

\* more than 5 occurrences on lines of their own: the list is cut to 5
C11_Witness ==
  /\ tpc = "scanned" /\ found # <<>>
  /\ found[1].count > MaxOccurrences
  /\ Len(found[1].occurrences) = MaxOccurrences

====
